---- MODULE Spec2Model ----
(***************************************************************************)
(* Model of the Arcade Jigsaw sliding puzzle (src/src/App.tsx): the board  *)
(* generator, the parity test, the move validator, the ranking store and   *)
(* the session controller (the React component App).                       *)
(*                                                                         *)
(* A board is a function from the cell indices 0..N*N-1 to tile values, as *)
(* the JavaScript array is; the empty board [] is the function <<>>.       *)
(* Each event handler runs to completion and the component renders between *)
(* two events, so one action is one handler with all its state updates.    *)
(* State updater functions are applied once per update.                    *)
(***************************************************************************)
EXTENDS Integers, Sequences, FiniteSets, TLC

VARIABLES
    difficultyId,   \* useState(difficulties[0].id)
    currentImage,   \* useState(demonImages[0]), held by its id
    tiles,          \* useState<number[]>([])
    moveCount,      \* useState(0)
    status,         \* useState<PuzzleStatus>("idle")
    rankings,       \* useState(() => loadRankings())
    storage,        \* window.localStorage[SCORE_KEY]
    initialized,    \* useRef(false)
    created,        \* number of ScoreEntry objects built so far (createId calls)
    legalMoves,     \* history: accepted moves since the most recent restart
    recorded        \* history: the move counts handed to persistRanking, in order

vars == <<difficultyId, currentImage, tiles, moveCount, status, rankings,
          storage, initialized, created, legalMoves, recorded>>

(***************************************************************************)
(* Bounds of the model.                                                    *)
(***************************************************************************)
\* accepted moves per puzzle explored by the session
MaxMoves == 2
\* ScoreEntry objects created per session
MaxSolves == 1
\* slides away from the solved board of the session's shuffle candidates
SessionSlides == 2
\* exchanges of the empty cell that build the generator's candidates
GenSwaps == 3

(***************************************************************************)
(* Catalogs.                                                               *)
(***************************************************************************)
demonImages == <<"starlit-reaper", "midnight-sigil", "crimson-halo">>

difficulties ==
    << [id |-> "easy", size |-> 3],
       [id |-> "standard", size |-> 4],
       [id |-> "expert", size |-> 5] >>

RankingLimit == 8

DifficultyIds == {difficulties[i].id : i \in DOMAIN difficulties}

GridSizes == {difficulties[i].size : i \in DOMAIN difficulties}

\* difficulties.find((entry) => entry.id === id) ?? fallback
FindDifficulty(id, fallback) ==
    IF \E i \in DOMAIN difficulties : difficulties[i].id = id
    THEN difficulties[CHOOSE i \in DOMAIN difficulties :
                        /\ difficulties[i].id = id
                        /\ \A j \in 1..(i - 1) : difficulties[j].id # id]
    ELSE fallback

activeDifficulty == FindDifficulty(difficultyId, difficulties[1])

tileCount == activeDifficulty.size * activeDifficulty.size

blankValue == tileCount - 1

(***************************************************************************)
(* JavaScript helpers.                                                     *)
(***************************************************************************)
Length(arr) == Cardinality(DOMAIN arr)

\* Array.prototype.indexOf: the first index holding value, or -1
IndexOf(arr, value) ==
    IF \E i \in DOMAIN arr : arr[i] = value
    THEN CHOOSE i \in DOMAIN arr :
            /\ arr[i] = value
            /\ \A j \in DOMAIN arr : arr[j] = value => i <= j
    ELSE -1

\* the % operator: the result takes the sign of the dividend
JsRem(a, b) == IF a >= 0 THEN a % b ELSE -((-a) % b)

\* Math.floor(a / b) for b > 0
FloorDiv(a, b) == a \div b

Abs(x) == IF x < 0 THEN -x ELSE x

(***************************************************************************)
(* Board generator and parity test.                                        *)
(***************************************************************************)
createSolvedBoard(size) == [index \in 0..(size * size - 1) |-> index]

countInversions(arr, blank) ==
    Cardinality({p \in (DOMAIN arr) \X (DOMAIN arr) :
                    /\ p[1] < p[2]
                    /\ arr[p[1]] # blank
                    /\ arr[p[2]] # blank
                    /\ arr[p[1]] > arr[p[2]]})

\* isSolvable counting the rows from the bottom from 0
isSolvableRowFromZero(arr, size) ==
    LET blank == Length(arr) - 1
        inversions == countInversions(arr, blank)
        blankIndex == IndexOf(arr, blank)
        blankRowFromBottom == size - 1 - FloorDiv(blankIndex, size)
    IN  IF JsRem(size, 2) = 1
        THEN JsRem(inversions, 2) = 0
        ELSE IF JsRem(blankRowFromBottom, 2) = 0
             THEN JsRem(inversions, 2) = 1
             ELSE JsRem(inversions, 2) = 0

isSolvable(arr, size) ==
    LET blank == Length(arr) - 1
        inversions == countInversions(arr, blank)
        blankIndex == IndexOf(arr, blank)
        blankRowFromBottom == size - FloorDiv(blankIndex, size)
    IN  IF JsRem(size, 2) = 1
        THEN JsRem(inversions, 2) = 0
        ELSE IF JsRem(blankRowFromBottom, 2) = 0
             THEN JsRem(inversions, 2) = 1
             ELSE JsRem(inversions, 2) = 0

isSolved(arr) == \A index \in DOMAIN arr : arr[index] = index

\* the array with the contents of cells a and b exchanged
SwapCells(arr, a, b) ==
    [k \in DOMAIN arr |-> IF k = a THEN arr[b] ELSE IF k = b THEN arr[a] ELSE arr[k]]

\* isAdjacent comparing the indices only, blind to the end of a row
isAdjacentAcrossRows(indexA, indexB, size) ==
    \/ Abs(indexA - indexB) = 1
    \/ Abs(indexA - indexB) = size

\* isAdjacent accepting the diagonal neighbours as well
isAdjacentDiagonal(indexA, indexB, size) ==
    /\ indexA # indexB
    /\ Abs(FloorDiv(indexA, size) - FloorDiv(indexB, size)) <= 1
    /\ Abs(JsRem(indexA, size) - JsRem(indexB, size)) <= 1

\* isAdjacent accepting any cell of the same row or of the same column
isAdjacentAlongLine(indexA, indexB, size) ==
    /\ indexA # indexB
    /\ \/ FloorDiv(indexA, size) = FloorDiv(indexB, size)
       \/ JsRem(indexA, size) = JsRem(indexB, size)

isAdjacent(indexA, indexB, size) ==
    LET rowA == FloorDiv(indexA, size)
        colA == JsRem(indexA, size)
        rowB == FloorDiv(indexB, size)
        colB == JsRem(indexB, size)
        rowMatch == rowA = rowB /\ Abs(colA - colB) = 1
        colMatch == colA = colB /\ Abs(rowA - rowB) = 1
    IN  rowMatch \/ colMatch

(***************************************************************************)
(* [...solved].sort(() => Math.random() - 0.5) can return any permutation  *)
(* of the solved board.  The model draws it from a bounded set of them:    *)
(* the boards obtained from the solved board by at most `swaps` exchanges  *)
(* of the empty cell with a cell at most `reach` places away in its row or *)
(* column.  Exchanges over a distance give boards that no slides solve and *)
(* boards with the empty cell in cell 0; exchanges with reach 1 are slides *)
(* and give the boards that are a few moves from solved.                   *)
(***************************************************************************)
InReach(a, b, size, reach) ==
    /\ a # b
    /\ \/ FloorDiv(a, size) = FloorDiv(b, size) /\ Abs(a - b) <= reach
       \/ JsRem(a, size) = JsRem(b, size) /\ Abs(a - b) <= reach * size

RECURSIVE Scrambles(_, _, _, _)
Scrambles(boards, size, swaps, reach) ==
    IF swaps = 0
    THEN boards
    ELSE Scrambles(boards \cup
                     {SwapCells(q[1], IndexOf(q[1], size * size - 1), q[2]) :
                        q \in {r \in boards \X (0..(size * size - 1)) :
                                 InReach(IndexOf(r[1], size * size - 1), r[2], size, reach)}},
                   size, swaps - 1, reach)

RandomOrders(size, swaps, reach) ==
    Scrambles({createSolvedBoard(size)}, size, swaps, reach)

\* shuffleBoard without the test of the first cell
shuffleBoardAnyFirstCell(size, orders) ==
    LET solved == createSolvedBoard(size)
    IN  {candidate \in orders :
            ~(\/ ~isSolvable(candidate, size)
              \/ \A idx \in DOMAIN candidate : candidate[idx] = solved[idx])}

\* the boards the do-while loop of shuffleBoard can return when the sort
\* yields the boards of `orders`
\* shuffleBoard without the comparison with the solved board
shuffleBoardAllowsSolved(size, orders) ==
    LET solved == createSolvedBoard(size)
        blank == Length(solved) - 1
    IN  {candidate \in orders :
            ~(\/ ~isSolvable(candidate, size)
              \/ candidate[0] = blank)}

shuffleBoard(size, orders) ==
    LET solved == createSolvedBoard(size)
        blank == Length(solved) - 1
    IN  {candidate \in orders :
            ~(\/ ~isSolvable(candidate, size)
              \/ \A idx \in DOMAIN candidate : candidate[idx] = solved[idx]
              \/ candidate[0] = blank)}

(***************************************************************************)
(* Ranking store.  A ScoreEntry is a record; the fields imageLabel,        *)
(* difficultyLabel and finishedAt are left out: the labels are fixed by    *)
(* the two ids and nothing reads the timestamp but the rendering.          *)
(*                                                                         *)
(* A storage item is [raw |-> "null"] packed as [raw, doc]: raw = "null"   *)
(* when the key is absent, "empty" for the empty string and "text"         *)
(* otherwise; doc is what the text denotes as JSON: t = "invalid" for text *)
(* that is not JSON, "object" or "array" for a document, an array's items  *)
(* being objects written as lists of <<name, value>> members.              *)
(***************************************************************************)
NoItem == [raw |-> "null", doc |-> [t |-> "invalid", items |-> <<>>]]

EmptyText == [raw |-> "empty", doc |-> [t |-> "invalid", items |-> <<>>]]

NotJson == [raw |-> "text", doc |-> [t |-> "invalid", items |-> <<>>]]

\* a JSON document that is an object, not an array: {"best": {"moves": 1}}
JsonObject ==
    [raw |-> "text", doc |-> [t |-> "object", items |-> << << <<"moves", 1>> >> >>]]

JsonText(document) == [raw |-> "text", doc |-> document]

\* JSON.stringify of one ScoreEntry: its members in the order of the literal
StringifyEntry(entry) ==
    << <<"id", entry.id>>, <<"imageId", entry.imageId>>,
       <<"difficultyId", entry.difficultyId>>, <<"size", entry.size>>,
       <<"moves", entry.moves>> >>

\* JSON.stringify(entries)
JsonStringify(entries) ==
    [t |-> "array", items |-> [i \in DOMAIN entries |-> StringifyEntry(entries[i])]]

\* JSON.parse of one object: a later member of the same name wins
ParseObject(members) ==
    [name \in {members[i][1] : i \in DOMAIN members} |->
        members[CHOOSE i \in DOMAIN members :
                    /\ members[i][1] = name
                    /\ \A j \in DOMAIN members : members[j][1] = name => j <= i][2]]

\* JSON.parse of an array document
ParseArray(document) == [i \in DOMAIN document.items |-> ParseObject(document.items[i])]

\* loadRankings returning what JSON.parse returns without the Array.isArray test
loadRankingsAnyDocument(item) ==
    IF item.raw = "null" \/ item.raw = "empty"
    THEN <<>>
    ELSE IF item.doc.t = "invalid"
         THEN <<>>
         ELSE ParseArray(item.doc)

\* the text that is not JSON makes JSON.parse throw into the catch clause
loadRankings(item) ==
    IF item.raw = "null" \/ item.raw = "empty"
    THEN <<>>
    ELSE IF item.doc.t = "invalid"
         THEN <<>>
         ELSE IF item.doc.t = "array" THEN ParseArray(item.doc) ELSE <<>>

storeRankings(entries) == JsonText(JsonStringify(entries))

\* the comparator (a, b) => a.moves - b.moves
CompareMoves(a, b) == a.moves - b.moves

\* SortedPlace of a sort that puts the later of two equal elements first
SortedPlaceLaterFirst(entries, i) ==
    1 + Cardinality({j \in DOMAIN entries :
                        \/ CompareMoves(entries[j], entries[i]) < 0
                        \/ CompareMoves(entries[j], entries[i]) = 0 /\ j > i})

\* the place the stable sort gives element i: behind the elements the
\* comparator puts before it and behind the earlier ones it ties with
SortedPlace(entries, i) ==
    1 + Cardinality({j \in DOMAIN entries :
                        \/ CompareMoves(entries[j], entries[i]) < 0
                        \/ CompareMoves(entries[j], entries[i]) = 0 /\ j < i})

\* Array.prototype.sort((a, b) => a.moves - b.moves), a stable sort
SortByMoves(entries) ==
    [k \in DOMAIN entries |->
        entries[CHOOSE i \in DOMAIN entries : SortedPlace(entries, i) = k]]

\* Array.prototype.slice(0, n)
SliceTo(entries, n) == SubSeq(entries, 1, IF Len(entries) < n THEN Len(entries) ELSE n)

\* recordResult truncating before it sorts
recordResultSliceFirst(previous, entry) ==
    CHOOSE updated \in {SortByMoves(sliced) :
                           sliced \in {SliceTo(appended, RankingLimit) :
                                          appended \in {Append(previous, entry)}}} : TRUE

\* the updater of setRankings in persistRanking: the array [...previous, entry],
\* the array sort returns and the array slice returns, each built once
recordResult(previous, entry) ==
    CHOOSE updated \in {SliceTo(sorted, RankingLimit) :
                           sorted \in {SortByMoves(appended) :
                                          appended \in {Append(previous, entry)}}} : TRUE

\* NewEntry reading the counter of the last render instead of the updater's value
NewEntryStaleCount(id, moves) ==
    [id |-> id, imageId |-> currentImage, difficultyId |-> activeDifficulty.id,
     size |-> activeDifficulty.size, moves |-> moveCount]

NewEntry(id, moves) ==
    [id |-> id, imageId |-> currentImage, difficultyId |-> activeDifficulty.id,
     size |-> activeDifficulty.size, moves |-> moves]

\* persistRanking storing the list of the last render instead of the updated one
persistRankingStoresPrevious(moves) ==
    LET entry == NewEntry(created + 1, moves)
        updated == recordResult(rankings, entry)
    IN  /\ created' = created + 1
        /\ storage' = storeRankings(rankings)
        /\ rankings' = updated
        /\ recorded' = Append(recorded, moves)

persistRanking(moves) ==
    LET entry == NewEntry(created + 1, moves)
        updated == recordResult(rankings, entry)
    IN  /\ created' = created + 1
        /\ storage' = storeRankings(updated)
        /\ rankings' = updated
        /\ recorded' = Append(recorded, moves)

\* randomFrom without the filter on excludeId
randomFromWholeCatalog(items, excludeId) == {items[i] : i \in DOMAIN items}

\* randomFrom(items, excludeId): the values it can return
randomFrom(items, excludeId) ==
    LET filtered == IF Len(items) > 1
                    THEN SelectSeq(items, LAMBDA entry : entry # excludeId)
                    ELSE items
    IN  {filtered[i] : i \in DOMAIN filtered}

(***************************************************************************)
(* Session controller.                                                     *)
(***************************************************************************)
SessionBoards ==
    [size \in GridSizes |-> shuffleBoard(size, RandomOrders(size, SessionSlides, 1))]

\* a persisted list nobody sorted or truncated: nine entries, not ascending
StaleEntry(n) ==
    [id |-> 0 - n, imageId |-> demonImages[1], difficultyId |-> "easy",
     size |-> 3, moves |-> IF n = 1 THEN 2 ELSE 1]

StaleList == [n \in 1..(RankingLimit + 1) |-> StaleEntry(n)]

\* the items the session can find under the key: none, the empty string, text
\* that is not JSON, a JSON object and the stale list
SessionItems == {NoItem, EmptyText, NotJson, JsonObject, storeRankings(StaleList)}

Init ==
    /\ difficultyId = difficulties[1].id
    /\ currentImage = demonImages[1]
    /\ tiles = <<>>
    /\ moveCount = 0
    /\ status = "idle"
    /\ storage \in SessionItems
    /\ rankings = loadRankings(storage)
    /\ initialized = FALSE
    /\ created = 0
    /\ legalMoves = 0
    /\ recorded = <<>>

NoTarget == "undefined"

\* startPuzzle never resetting the move counter
startPuzzleKeepsCount(randomImage, targetDifficultyId) ==
    LET targetDifficulty == FindDifficulty(targetDifficultyId, activeDifficulty)
    IN  /\ difficultyId' = targetDifficulty.id
        /\ currentImage' \in IF randomImage
                             THEN randomFrom(demonImages, currentImage)
                             ELSE {currentImage}
        /\ tiles' \in SessionBoards[targetDifficulty.size]
        /\ moveCount' = moveCount
        /\ status' = "playing"
        /\ legalMoves' = 0
        /\ UNCHANGED <<rankings, storage, created, recorded>>

\* startPuzzle falling back to the first difficulty instead of the active one
startPuzzleFallbackFirst(randomImage, targetDifficultyId) ==
    LET targetDifficulty == FindDifficulty(targetDifficultyId, difficulties[1])
    IN  /\ difficultyId' = targetDifficulty.id
        /\ currentImage' \in IF randomImage
                             THEN randomFrom(demonImages, currentImage)
                             ELSE {currentImage}
        /\ tiles' \in SessionBoards[targetDifficulty.size]
        /\ moveCount' = 0
        /\ status' = "playing"
        /\ legalMoves' = 0
        /\ UNCHANGED <<rankings, storage, created, recorded>>

\* startPuzzle without setDifficultyId
startPuzzleKeepsDifficulty(randomImage, targetDifficultyId) ==
    LET targetDifficulty == FindDifficulty(targetDifficultyId, activeDifficulty)
    IN  /\ difficultyId' = difficultyId
        /\ currentImage' \in IF randomImage
                             THEN randomFrom(demonImages, currentImage)
                             ELSE {currentImage}
        /\ tiles' \in SessionBoards[targetDifficulty.size]
        /\ moveCount' = 0
        /\ status' = "playing"
        /\ legalMoves' = 0
        /\ UNCHANGED <<rankings, storage, created, recorded>>

\* startPuzzle shuffling a board of the size of the difficulty being left
startPuzzleActiveSize(randomImage, targetDifficultyId) ==
    LET targetDifficulty == FindDifficulty(targetDifficultyId, activeDifficulty)
    IN  /\ difficultyId' = targetDifficulty.id
        /\ currentImage' \in IF randomImage
                             THEN randomFrom(demonImages, currentImage)
                             ELSE {currentImage}
        /\ tiles' \in SessionBoards[activeDifficulty.size]
        /\ moveCount' = 0
        /\ status' = "playing"
        /\ legalMoves' = 0
        /\ UNCHANGED <<rankings, storage, created, recorded>>

startPuzzle(randomImage, targetDifficultyId) ==
    LET targetDifficulty == FindDifficulty(targetDifficultyId, activeDifficulty)
    IN  /\ difficultyId' = targetDifficulty.id
        /\ currentImage' \in IF randomImage
                             THEN randomFrom(demonImages, currentImage)
                             ELSE {currentImage}
        /\ tiles' \in SessionBoards[targetDifficulty.size]
        /\ moveCount' = 0
        /\ status' = "playing"
        /\ legalMoves' = 0
        /\ UNCHANGED <<rankings, storage, created, recorded>>

\* the effect that runs after the first render; no event is handled before it
Mount ==
    /\ ~initialized
    /\ initialized' = TRUE
    /\ startPuzzle(FALSE, NoTarget)

\* moveRejected without the test of the status
moveRejectedAnyStatus(tileIndex) ==
    ~isAdjacent(tileIndex, IndexOf(tiles, blankValue), activeDifficulty.size)

\* the two early returns of attemptMove
moveRejected(tileIndex) ==
    \/ status # "playing"
    \/ ~isAdjacent(tileIndex, IndexOf(tiles, blankValue), activeDifficulty.size)

attemptMove(tileIndex) ==
    IF moveRejected(tileIndex)
    THEN UNCHANGED <<difficultyId, currentImage, tiles, moveCount, status,
                     rankings, storage, created, recorded>>
    ELSE \E emptyIndex \in {IndexOf(tiles, blankValue)} :
         \E nextTiles \in {SwapCells(tiles, tileIndex, emptyIndex)} :
         \E solved \in {isSolved(nextTiles)} :
         \E updated \in {moveCount + 1} :
             /\ moveCount < MaxMoves
             /\ solved => created < MaxSolves
             /\ tiles' = nextTiles
             /\ moveCount' = updated
             /\ IF solved
                THEN persistRanking(updated) /\ status' = "solved"
                ELSE UNCHANGED <<status, rankings, storage, created, recorded>>
             /\ UNCHANGED <<difficultyId, currentImage>>

\* history of a move input: a move was accepted when the board changed
CountMove == legalMoves' = IF tiles' # tiles THEN legalMoves + 1 ELSE legalMoves

handleTileClick(index) ==
    /\ initialized
    /\ index \in DOMAIN tiles
    /\ attemptMove(index)
    /\ CountMove
    /\ UNCHANGED initialized

UpKeys == {"ArrowUp", "w", "W"}

DownKeys == {"ArrowDown", "s", "S"}

LeftKeys == {"ArrowLeft", "a", "A"}

RightKeys == {"ArrowRight", "d", "D"}

RestartKeys == {" ", "Enter"}

DirectionKeys == UpKeys \cup DownKeys \cup LeftKeys \cup RightKeys

\* the keys the model presses: the ones the switch names and one it does not
Keys == DirectionKeys \cup RestartKeys \cup {"Escape"}

\* KeyTarget without the tests of the row and the column of the empty cell
KeyTargetNoEdgeTest(key) ==
    LET emptyIndex == IndexOf(tiles, blankValue)
        size == activeDifficulty.size
    IN  IF key \in UpKeys
        THEN emptyIndex + size
        ELSE IF key \in DownKeys
        THEN emptyIndex - size
        ELSE IF key \in LeftKeys
        THEN emptyIndex + 1
        ELSE IF key \in RightKeys
        THEN emptyIndex - 1
        ELSE -1

\* the target the switch of handleKeyDown sets for a direction key, -1 if none
KeyTarget(key) ==
    LET emptyIndex == IndexOf(tiles, blankValue)
        size == activeDifficulty.size
        row == FloorDiv(emptyIndex, size)
        col == JsRem(emptyIndex, size)
    IN  IF key \in UpKeys
        THEN IF row < size - 1 THEN emptyIndex + size ELSE -1
        ELSE IF key \in DownKeys
        THEN IF row > 0 THEN emptyIndex - size ELSE -1
        ELSE IF key \in LeftKeys
        THEN IF col < size - 1 THEN emptyIndex + 1 ELSE -1
        ELSE IF key \in RightKeys
        THEN IF col > 0 THEN emptyIndex - 1 ELSE -1
        ELSE -1

\* the early return of handleKeyDown
keyIgnored == status # "playing"

handleKeyDown(key) ==
    /\ initialized
    /\ key \in Keys
    /\ UNCHANGED initialized
    /\ IF keyIgnored
       THEN UNCHANGED <<difficultyId, currentImage, tiles, moveCount, status,
                        rankings, storage, created, legalMoves, recorded>>
       ELSE IF key \in RestartKeys
            THEN startPuzzle(FALSE, NoTarget)
            ELSE IF key \in DirectionKeys /\ KeyTarget(key) >= 0
                 THEN attemptMove(KeyTarget(key)) /\ CountMove
                 ELSE UNCHANGED <<difficultyId, currentImage, tiles, moveCount, status,
                                  rankings, storage, created, legalMoves, recorded>>

onDifficultyChange(targetId) ==
    /\ initialized
    /\ targetId \in DifficultyIds
    /\ startPuzzle(FALSE, targetId)
    /\ UNCHANGED initialized

\* onClick of the Random Demon Hunter button
RandomButton ==
    /\ initialized
    /\ startPuzzle(TRUE, NoTarget)
    /\ UNCHANGED initialized

\* the cell indices of the largest grid
AllIndices == UNION {0..(n * n - 1) : n \in GridSizes}

Next ==
    \/ Mount
    \/ \E index \in AllIndices : handleTileClick(index)
    \/ \E key \in Keys : handleKeyDown(key)
    \/ \E targetId \in DifficultyIds : onDifficultyChange(targetId)
    \/ RandomButton

Spec == Init /\ [][Next]_vars

(***************************************************************************)
(* Real solvability: the boards a finite sequence of legal slides connects *)
(* to the solved board.  A slide exchanges the empty cell with an          *)
(* orthogonally adjacent cell, so it can be undone by a slide and the      *)
(* boards that reach the solved board are the boards reached from it.      *)
(***************************************************************************)
\* boards of at most MaxCells cells are enumerated
MaxCells == 9

SolvSizes == {n \in 2..5 : n * n <= MaxCells}

\* the board after the empty cell is exchanged with the cell `step` places
\* on (1 and -1 within its row, size and -size within its column); the
\* board itself when there is no such cell
SlideTo(board, size, step) ==
    LET emptyIndex == IndexOf(board, size * size - 1)
        c == emptyIndex + step
    IN  IF /\ c \in DOMAIN board
           /\ (step = 1 \/ step = -1) => FloorDiv(c, size) = FloorDiv(emptyIndex, size)
        THEN SwapCells(board, emptyIndex, c)
        ELSE board

Slides(board, size) == {SlideTo(board, size, step) : step \in {1, -1, size, 0 - size}} \ {board}

\* the set S itself; taking its cardinality makes TLC keep it sorted
Sorted(S) == CHOOSE T \in {S} : Cardinality(T) >= 0

\* layers[k] holds the boards k - 1 slides away from the first layer; a slide
\* from layer k leads to layer k - 1, k or k + 1 because slides can be undone
RECURSIVE SlideLayers(_, _)
SlideLayers(layers, size) ==
    LET n == Len(layers)
        next == Sorted({c \in {SlideTo(b, size, step) :
                                  b \in layers[n], step \in {1, -1, size, 0 - size}} :
                          c \notin layers[n] /\ (n > 1 => c \notin layers[n - 1])})
    IN  IF next = {} THEN layers ELSE SlideLayers(Append(layers, next), size)

Reachable == [size \in SolvSizes |-> SlideLayers(<<{createSolvedBoard(size)}>>, size)]

\* legal slides connect the board to the solved board
SlidesSolve(board, size) ==
    \E k \in DOMAIN Reachable[size] : board \in Reachable[size][k]

SolvInit ==
    /\ difficultyId \in {"easy"}
    /\ currentImage = demonImages[1]
    /\ \E size \in SolvSizes : tiles \in Permutations(0..(size * size - 1))
    /\ moveCount = 0
    /\ status = "idle"
    /\ storage = NoItem
    /\ rankings = <<>>
    /\ initialized = FALSE
    /\ created = 0
    /\ legalMoves = 0
    /\ recorded = <<>>

\* the grid size of a board of N*N cells
SizeOf(board) == CHOOSE n \in 0..5 : n * n = Length(board)

\* one legal slide
Slide ==
    /\ tiles' \in Slides(tiles, SizeOf(tiles))
    /\ UNCHANGED <<difficultyId, currentImage, moveCount, status, rankings,
                   storage, initialized, created, legalMoves, recorded>>

SolvNext == Slide

SpecSolv == SolvInit /\ [][SolvNext]_vars

\* C2: on every permutation board of an enumerated size, the parity test
\* isSolvable holds exactly when legal slides connect the board to the
\* solved board
ParityIsSolvability ==
    isSolvable(tiles, SizeOf(tiles)) <=> SlidesSolve(tiles, SizeOf(tiles))

\* a 2 x 2 board, not solved, with the empty cell in the top row, that passes
\* the parity test and that slides solve
ParityWitness ==
    /\ SizeOf(tiles) = 2
    /\ IndexOf(tiles, 3) < 2
    /\ ~isSolved(tiles)
    /\ isSolvable(tiles, 2)
    /\ SlidesSolve(tiles, 2)

(***************************************************************************)
(* The generator on its own: every call shuffleBoard(size) for a size of   *)
(* the catalog.                                                            *)
(***************************************************************************)
GenBoards ==
    [size \in GridSizes |-> shuffleBoard(size, RandomOrders(size, GenSwaps, size))]

GenInit ==
    /\ difficultyId = difficulties[1].id
    /\ currentImage = demonImages[1]
    /\ tiles = <<>>
    /\ moveCount = 0
    /\ status = "idle"
    /\ storage = NoItem
    /\ rankings = <<>>
    /\ initialized = FALSE
    /\ created = 0
    /\ legalMoves = 0
    /\ recorded = <<>>

Generate(id) ==
    /\ difficultyId' = id
    /\ tiles' \in GenBoards[FindDifficulty(id, difficulties[1]).size]
    /\ UNCHANGED <<currentImage, moveCount, status, rankings, storage,
                   initialized, created, legalMoves, recorded>>

GenNext == \E id \in DifficultyIds : Generate(id)

SpecGen == GenInit /\ [][GenNext]_vars

IsPermutation(arr, size) ==
    /\ DOMAIN arr = 0..(size * size - 1)
    /\ {arr[i] : i \in DOMAIN arr} = 0..(size * size - 1)

\* what the generator promises of a board of the given size
GeneratorConditions(arr, size) ==
    /\ IsPermutation(arr, size)
    /\ isSolvable(arr, size)
    /\ \E i \in DOMAIN arr : arr[i] # i
    /\ arr[0] # size * size - 1

\* C1: every board the generator returns for a grid size of 3, 4 or 5 is a
\* permutation of 0..N*N-1 that passes the parity test, is not the solved
\* board and does not hold the empty cell at index 0
GeneratedBoardValid ==
    tiles # <<>> =>
        /\ activeDifficulty.size \in {3, 4, 5}
        /\ GeneratorConditions(tiles, activeDifficulty.size)

\* a generated 4 x 4 board whose empty cell left the last cell
GeneratedBoardWitness ==
    /\ Length(tiles) = 16
    /\ tiles[15] # 15
    /\ GeneratorConditions(tiles, 4)

(***************************************************************************)
(* Properties of the session.                                              *)
(***************************************************************************)
\* the cells orthogonally adjacent to cell e of a size x size grid
OrthogonalNeighbours(e, size) ==
    ({e - size, e + size}
        \cup (IF e % size # 0 THEN {e - 1} ELSE {})
        \cup (IF e % size # size - 1 THEN {e + 1} ELSE {}))
    \cap (0..(size * size - 1))

\* the cell that holds the empty tile
EmptyCell == IndexOf(tiles, Length(tiles) - 1)

\* the next board is this one with the contents of cells a and b exchanged
ExchangedOnly(a, b) ==
    /\ DOMAIN tiles' = DOMAIN tiles
    /\ tiles'[a] = tiles[b]
    /\ tiles'[b] = tiles[a]
    /\ \A k \in DOMAIN tiles \ {a, b} : tiles'[k] = tiles[k]
    /\ tiles' # tiles

\* a click on a cell next to the empty cell exchanges the two cells (while
\* the explored counters have room)
AdjacentClickMoves ==
    (status = "playing" /\ moveCount < MaxMoves /\ created < MaxSolves) =>
        \A index \in OrthogonalNeighbours(EmptyCell, activeDifficulty.size) :
            ENABLED (handleTileClick(index) /\ ExchangedOnly(index, EmptyCell))

\* a move input changed the board: it exchanged the empty cell with a cell
\* next to it and the session was playing
ChangeIsAdjacentExchange ==
    legalMoves' = legalMoves + 1 =>
        /\ status = "playing"
        /\ \E index \in OrthogonalNeighbours(EmptyCell, activeDifficulty.size) :
              ExchangedOnly(index, EmptyCell)

\* C3: while playing, attemptMove changes the board exactly when the index is
\* orthogonally adjacent to the empty cell; the new board is then the old one
\* with the target cell and the empty cell exchanged, and is the old board
\* otherwise
MoveChangesIffAdjacent == []AdjacentClickMoves /\ [][ChangeIsAdjacentExchange]_vars

\* a playing 3 x 3 board reached by an accepted move, its empty cell at the
\* end of the middle row: cell 6 follows it in the array and is not adjacent
MoveWitness ==
    /\ status = "playing"
    /\ legalMoves >= 1
    /\ Length(tiles) = 9
    /\ IndexOf(tiles, 8) = 5

\* C4: the move counter is the number of accepted moves since the most
\* recent restart
CounterCountsAcceptedMoves == moveCount = legalMoves

\* two moves were accepted after a solve and a restart
CounterWitness ==
    /\ status = "playing"
    /\ moveCount = 2
    /\ legalMoves = 2
    /\ created = 1

\* the entry a solve in this step has to record
SolveEntry ==
    [id |-> created', imageId |-> currentImage, difficultyId |-> difficultyId,
     size |-> activeDifficulty.size, moves |-> moveCount']

\* the next list holds the entry once, unless the list is full of results
\* that are no worse, and holds nothing else that is new
RecordedOnce(entry) ==
    /\ Cardinality({i \in DOMAIN rankings' : rankings'[i] = entry}) <= 1
    /\ \/ \E i \in DOMAIN rankings' : rankings'[i] = entry
       \/ /\ Len(rankings') = RankingLimit
          /\ \A i \in DOMAIN rankings' : rankings'[i].moves <= entry.moves
    /\ \A i \in DOMAIN rankings' :
          \/ rankings'[i] = entry
          \/ \E j \in DOMAIN rankings : rankings[j] = rankings'[i]

\* a step that is an accepted move onto the solved board
SolvingMove == legalMoves' = legalMoves + 1 /\ isSolved(tiles')

SolveRecordsStep ==
    IF SolvingMove
    THEN /\ status = "playing"
         /\ status' = "solved"
         /\ moveCount' = moveCount + 1
         /\ moveCount' = legalMoves'
         /\ created' = created + 1
         /\ UNCHANGED <<currentImage, difficultyId>>
         /\ RecordedOnce(SolveEntry)
    ELSE /\ UNCHANGED <<created, rankings>>
         /\ status' = "solved" => status = "solved"

\* C5: an accepted move onto the solved board takes the session from playing
\* to solved and in the same step records one new ScoreEntry with the final
\* move counter and the current image and difficulty; no other step creates
\* a ScoreEntry
SolveRecordsOnce == [][SolveRecordsStep]_vars

\* a solve in two moves after a restart onto another image and difficulty,
\* its entry in the list
SolveWitness ==
    /\ status = "solved"
    /\ created = 1
    /\ moveCount = 2
    /\ currentImage # demonImages[1]
    /\ difficultyId = "expert"
    /\ \E i \in DOMAIN rankings :
          /\ rankings[i].id = 1
          /\ rankings[i].moves = 2
          /\ rankings[i].imageId = currentImage
          /\ rankings[i].difficultyId = "expert"

\* the step starts a new puzzle on request of the button or of the selector
NewPuzzleRequest == RandomButton \/ \E targetId \in DifficultyIds : onDifficultyChange(targetId)

\* C6: while solved, a tile activation or a direction key changes neither the
\* board nor the move counter, the status or the ranking list: a step out of
\* a solved state that changes one of them is a requested new puzzle, which
\* leaves solved for playing
SolvedIgnoresMoves ==
    [][status = "solved" =>
          \/ UNCHANGED <<tiles, moveCount, status, rankings>>
          \/ status' = "playing" /\ moveCount' = 0 /\ NewPuzzleRequest]_vars

\* solved with moves to spare: a tile next to the empty cell could still move
SolvedWitness ==
    /\ status = "solved"
    /\ moveCount < MaxMoves
    /\ Length(tiles) = 16
    /\ rankings # <<>>

\* a restart: a fresh board for the difficulty of the next state
RestartStep ==
    /\ status' = "playing"
    /\ moveCount' = 0
    /\ GeneratorConditions(tiles', FindDifficulty(difficultyId', difficulties[1]).size)

\* C7: Space or Enter on the board restarts from playing and from solved
RestartKeyRestarts ==
    (initialized /\ status \in {"playing", "solved"}) =>
        \A key \in RestartKeys :
            /\ ENABLED (handleKeyDown(key) /\ RestartStep)
            /\ ~ENABLED (handleKeyDown(key) /\ ~RestartStep)

\* the requests for a new puzzle are handled in every state after the mount
RequestsHandled ==
    initialized =>
        /\ ENABLED RandomButton
        /\ \A targetId \in DifficultyIds : ENABLED onDifficultyChange(targetId)

\* a requested new puzzle is playing at move 0 with the selected difficulty
RequestRestarts ==
    /\ RandomButton => status' = "playing" /\ moveCount' = 0 /\ difficultyId' = difficultyId
    /\ \A targetId \in DifficultyIds :
          onDifficultyChange(targetId) =>
              status' = "playing" /\ moveCount' = 0 /\ difficultyId' = targetId

\* a playing state at move 0 is the state a restart leaves: its board meets
\* the generator's conditions for the active difficulty
FreshBoardValid ==
    (status = "playing" /\ moveCount = 0 /\ legalMoves = 0) =>
        GeneratorConditions(tiles, activeDifficulty.size)

\* C8: in every state after the mount, the random-image button and every
\* choice of the difficulty selector are handled and lead to status playing,
\* move counter 0 and a board that meets the generator's conditions for the
\* selected difficulty
NewPuzzleAccepted == []RequestsHandled /\ []FreshBoardValid /\ [][RequestRestarts]_vars

\* a new puzzle of another difficulty taken out of the solved state
NewPuzzleWitness ==
    /\ status = "playing"
    /\ moveCount = 0
    /\ created = 1
    /\ difficultyId = "standard"
    /\ Length(tiles) = 16

(***************************************************************************)
(* The ranking store on its own: results recorded one after the other into *)
(* a list that starts empty.                                               *)
(***************************************************************************)
\* the number of results recorded
MaxRecords == 9

\* the move counts recorded are 1..MaxScore
MaxScore == 3

RankInit ==
    /\ difficultyId = difficulties[1].id
    /\ currentImage = demonImages[1]
    /\ tiles = <<>>
    /\ moveCount = 0
    /\ status = "idle"
    /\ storage = NoItem
    /\ rankings = loadRankings(storage)
    /\ initialized = FALSE
    /\ created = 0
    /\ legalMoves = 0
    /\ recorded = <<>>

\* one call persistRanking(moves)
RecordResult(moves) ==
    /\ Len(recorded) < MaxRecords
    /\ persistRanking(moves)
    /\ UNCHANGED <<difficultyId, currentImage, tiles, moveCount, status,
                   initialized, legalMoves>>

RankNext == \E moves \in 1..MaxScore : RecordResult(moves)

SpecRank == RankInit /\ [][RankNext]_vars

IsSortedByMoves(entries) ==
    \A i, j \in DOMAIN entries : i < j => entries[i].moves <= entries[j].moves

\* how many of the results recorded so far took `moves` moves
RecordedWith(moves) == Cardinality({i \in DOMAIN recorded : recorded[i] = moves})

\* how many took fewer
RecordedBelow(moves) == Cardinality({i \in DOMAIN recorded : recorded[i] < moves})

\* how many results of `moves` moves are among the `limit` lowest recorded
AmongLowest(moves, limit) ==
    LET room == IF RecordedBelow(moves) >= limit THEN 0 ELSE limit - RecordedBelow(moves)
    IN  IF RecordedWith(moves) < room THEN RecordedWith(moves) ELSE room

\* C9: once more than 8 results were recorded into a list that started empty,
\* the list holds 8 entries, ascending by move count, and each move count as
\* often as it occurs among the 8 lowest move counts recorded
KeepsEightLowest ==
    Len(recorded) > 8 =>
        /\ Len(rankings) = 8
        /\ IsSortedByMoves(rankings)
        /\ \A moves \in 1..MaxScore :
              Cardinality({i \in DOMAIN rankings : rankings[i].moves = moves})
                  = AmongLowest(moves, 8)

\* nine results, the worst recorded first and the best last: the last one is
\* in the list and the first one is not
KeepsWitness ==
    /\ Len(recorded) = 9
    /\ recorded[1] = 3
    /\ recorded[9] = 1
    /\ \A i \in 2..8 : recorded[i] = 2
    /\ rankings[1].id = 9
    /\ \A i \in DOMAIN rankings : rankings[i].id # 1

\* C10: the ranking list is sorted ascending by move count and has at most
\* 8 entries in every state of the session, the initial one included
RankingSortedBounded ==
    /\ Len(rankings) <= 8
    /\ IsSortedByMoves(rankings)

\* the items that hold no list
BrokenItems == {NoItem, EmptyText, NotJson, JsonObject}

\* C11: when the item is absent, empty, not JSON or a JSON document that is
\* not an array, the list loadRankings returns is empty, and the mount that
\* starts the session is enabled in the state the construction leaves
LoadNeverFails ==
    /\ (created = 0 /\ storage \in BrokenItems) => rankings = <<>>
    /\ ~initialized => ENABLED Mount

\* a session that found a JSON object under the key, playing after a move
LoadWitness ==
    /\ storage = JsonObject
    /\ status = "playing"
    /\ legalMoves = 1
    /\ rankings = <<>>

\* from a catalog of one image randomFrom returns that image
OneEntryCatalog ==
    \A i \in DOMAIN demonImages :
        randomFrom(<<demonImages[i]>>, demonImages[i]) = {demonImages[i]}

\* a restart by the random-image button shows another image of the catalog
RandomPicksOther ==
    RandomButton =>
        /\ currentImage' \in {demonImages[i] : i \in DOMAIN demonImages}
        /\ currentImage' # currentImage

\* C12: a restart with a random image requested ends on a catalog image other
\* than the one shown before; from a catalog of one entry the pick is that
\* entry
RandomImageDiffers == []OneEntryCatalog /\ [][RandomPicksOther]_vars

\* the third image on a fresh board, before any solve
RandomWitness ==
    /\ currentImage = demonImages[3]
    /\ status = "playing"
    /\ moveCount = 0
    /\ created = 0

\* C13 as stated: in every state, idle included, the board is a permutation
\* of 0..N*N-1 for the grid size N of the active difficulty
BoardAlwaysPermutation == IsPermutation(tiles, activeDifficulty.size)

\* C13, amended: in every state other than idle the board is a permutation of
\* 0..N*N-1 for the grid size N of the active difficulty; in idle it is empty
BoardPermutationOnceStarted ==
    IF status = "idle"
    THEN tiles = <<>>
    ELSE IsPermutation(tiles, activeDifficulty.size)

\* a 5 x 5 board two moves after a change of difficulty
BoardWitness ==
    /\ status = "playing"
    /\ difficultyId = "expert"
    /\ Length(tiles) = 25
    /\ legalMoves = 2

(***************************************************************************)
(* The session of one player who starts with an empty store and leaves the *)
(* image alone: the mount, the moves and the difficulty selector.          *)
(***************************************************************************)
PlayInit ==
    /\ Init
    /\ storage = NoItem

PlayNext ==
    \/ Mount
    \/ \E index \in AllIndices : handleTileClick(index)
    \/ \E key \in Keys : handleKeyDown(key)
    \/ \E targetId \in DifficultyIds : onDifficultyChange(targetId)

SpecPlay == PlayInit /\ [][PlayNext]_vars

\* the cells of the board that are not next to the empty cell, the empty
\* cell among them
FarCells == (DOMAIN tiles) \ OrthogonalNeighbours(EmptyCell, activeDifficulty.size)

\* what an ignored input leaves as it is
NoEffect ==
    UNCHANGED <<tiles, moveCount, status, currentImage, difficultyId, rankings,
                storage, created>>

\* C14: while playing, a click on a cell that is not orthogonally next to the
\* empty cell, the empty cell included, is handled and changes neither board,
\* move counter, status, image, difficulty nor ranking list
IllegalMoveIgnored ==
    status = "playing" =>
        /\ \A index \in FarCells : ENABLED (handleTileClick(index) /\ NoEffect)
        /\ ~ENABLED (\E index \in FarCells : handleTileClick(index) /\ ~NoEffect)

\* a 4 x 4 board after a move, its empty cell in the bottom row: 11 cells
\* and the empty cell itself are out of reach
IllegalWitness ==
    /\ status = "playing"
    /\ legalMoves = 1
    /\ Length(tiles) = 16
    /\ EmptyCell = 14

\* the step of rows and of columns from the empty cell to the tile a key
\* slides: the up keys slide the tile below the empty cell up, the left
\* keys slide the tile to its right left
SlideFrom(key) ==
    IF key \in UpKeys THEN <<1, 0>>
    ELSE IF key \in DownKeys THEN <<-1, 0>>
    ELSE IF key \in LeftKeys THEN <<0, 1>>
    ELSE <<0, -1>>

\* the cells of the grid at that step from the empty cell: one cell, or none
\* when the empty cell is on the edge
OppositeCells(key) ==
    LET size == activeDifficulty.size
    IN  {cell \in 0..(size * size - 1) :
            /\ cell \div size = (EmptyCell \div size) + SlideFrom(key)[1]
            /\ cell % size = (EmptyCell % size) + SlideFrom(key)[2]}

\* C15: while playing, every direction key either has no target, when no cell
\* lies on the side of the empty cell opposite to the key's direction, and
\* then changes nothing, or targets exactly that cell, which is orthogonally
\* next to the empty cell, and the two cells are exchanged (while the explored
\* counters have room)
KeyTargetsOpposite ==
    status = "playing" =>
        \A key \in DirectionKeys : \A target \in {KeyTarget(key)} :
            IF OppositeCells(key) = {}
            THEN /\ target = -1
                 /\ ENABLED (handleKeyDown(key) /\ NoEffect)
            ELSE /\ OppositeCells(key) = {target}
                 /\ target \in OrthogonalNeighbours(EmptyCell, activeDifficulty.size)
                 /\ (moveCount < MaxMoves /\ created < MaxSolves) =>
                        ENABLED (handleKeyDown(key) /\ ExchangedOnly(target, EmptyCell))

\* a 3 x 3 board after a move, its empty cell at the start of the middle row:
\* the right keys have no target and the left keys target the centre
KeyWitness ==
    /\ status = "playing"
    /\ legalMoves = 1
    /\ Length(tiles) = 9
    /\ EmptyCell = 3
    /\ OppositeCells("d") = {}
    /\ OppositeCells("ArrowLeft") = {4}

\* the results recorded ahead of the k-th one in the order of move counts,
\* ties in the order of recording
RankedAhead(k) ==
    {j \in DOMAIN recorded :
        recorded[j] < recorded[k] \/ (recorded[j] = recorded[k] /\ j < k)}

\* C16: recording into a list that starts empty, the entry at place p of the
\* list is the result with p - 1 results ranked ahead of it, ties ranked in
\* the order of recording, so a new entry stands behind the entries of the
\* same move count and is the one dropped from a full list whose worst
\* entry it equals; the list is that ranking cut at 8
TiesKeepInsertionOrder ==
    /\ Len(rankings) = IF Len(recorded) < 8 THEN Len(recorded) ELSE 8
    /\ \A p \in DOMAIN rankings :
          /\ rankings[p].id \in DOMAIN recorded
          /\ rankings[p].moves = recorded[rankings[p].id]
          /\ Cardinality(RankedAhead(rankings[p].id)) = p - 1

\* nine results, the last of the same move count as the worst of the eight
\* before it: the ninth is not in the list and the eighth closes it
TiesWitness ==
    /\ Len(recorded) = 9
    /\ recorded[8] = 3
    /\ recorded[9] = 3
    /\ recorded[1] = 3
    /\ rankings[8].id = 8
    /\ \A p \in DOMAIN rankings : rankings[p].id # 9

\* C17: once a solve was recorded, the stored item is a JSON array that
\* decodes to the ranking list in memory, and loadRankings returns that list
\* from it
StoreHoldsList ==
    created >= 1 =>
        /\ storage.raw = "text"
        /\ storage.doc.t = "array"
        /\ Len(storage.doc.items) = Len(rankings)
        /\ ParseArray(storage.doc) = rankings
        /\ loadRankings(storage) = rankings

\* a first solve recorded into an empty store, and a new puzzle under way
StoreWitness ==
    /\ created = 1
    /\ status = "playing"
    /\ Len(rankings) = 1
    /\ rankings[1].id = 1
    /\ storage = storeRankings(rankings)

\* every cell holds the tile of its own index
InSolvedOrder == \A i \in DOMAIN tiles : tiles[i] = i

\* C18: in every state other than idle the status is solved exactly when
\* every cell holds the tile of its own index, so no playing session shows
\* the solved board, and every result recorded in the session took at least
\* one move
SolvedIffInOrder ==
    /\ status # "idle" => (status = "solved" <=> InSolvedOrder)
    /\ \A k \in DOMAIN recorded : recorded[k] >= 1

\* a 3 x 3 puzzle solved by its first move
InOrderWitness ==
    /\ status = "solved"
    /\ InSolvedOrder
    /\ Length(tiles) = 9
    /\ recorded = <<1>>

\* C19: in every playing or solved state the board passes the parity test
\* isSolvable for the active grid size: accepted moves keep a generated
\* board solvable
MovesKeepSolvable ==
    status \in {"playing", "solved"} => isSolvable(tiles, activeDifficulty.size)

\* a 4 x 4 board two accepted moves on, its empty cell off the bottom row
SolvableWitness ==
    /\ status = "playing"
    /\ Length(tiles) = 16
    /\ legalMoves = 2
    /\ EmptyCell < 12
    /\ isSolvable(tiles, 4)

\* an id that is not in the catalog, and no id at all, select the fallback
UnknownKeepsDifficulty ==
    \A d \in DOMAIN difficulties :
        /\ FindDifficulty("nightmare", difficulties[d]) = difficulties[d]
        /\ FindDifficulty(NoTarget, difficulties[d]) = difficulties[d]

\* the active grid size is one of the catalog
SizeInCatalog ==
    /\ activeDifficulty.size \in {3, 4, 5}
    /\ UnknownKeepsDifficulty

\* a step that is not an accepted move is the mount or a restart: it leaves
\* list and store alone, changes the image only for the random-image button,
\* which keeps the difficulty, and changes the difficulty only for the
\* selector, which keeps the image; the restart keys keep both
RestartFrameStep ==
    legalMoves' # legalMoves + 1 =>
        /\ UNCHANGED <<rankings, storage>>
        /\ currentImage' # currentImage => RandomButton
        /\ difficultyId' # difficultyId => onDifficultyChange(difficultyId')
        /\ RandomButton => difficultyId' = difficultyId
        /\ \A targetId \in DifficultyIds :
              onDifficultyChange(targetId) =>
                  currentImage' = currentImage /\ difficultyId' = targetId
        /\ \A key \in RestartKeys :
              handleKeyDown(key) => UNCHANGED <<currentImage, difficultyId>>
        /\ Mount => UNCHANGED <<currentImage, difficultyId>>

\* C20: a restart leaves the ranking list and the stored item unchanged, the
\* image unchanged unless a random image was requested and the difficulty
\* unchanged unless a target difficulty was given; a target id outside the
\* catalog selects the current difficulty, and the active grid size is always
\* 3, 4 or 5
RestartKeepsRest == []SizeInCatalog /\ [][RestartFrameStep]_vars

\* a restart after a solve: the list kept, the 5 x 5 grid and the second image
RestartFrameWitness ==
    /\ created = 1
    /\ status = "playing"
    /\ moveCount = 0
    /\ rankings # <<>>
    /\ storage = storeRankings(rankings)
    /\ difficultyId = "expert"
    /\ currentImage = demonImages[2]

====
